---------------------------- MODULE Spec2Model ----------------------------
(***************************************************************************)
(* PDF form extraction (pdfextract.py, pdf_form_extractor2.0.py and the    *)
(* later drivers): the field index, the value and option readers, the      *)
(* image-presence heuristic, the single-document session process_pdf, the  *)
(* batch and recurring drivers, and the console output with its parser.    *)
(*                                                                         *)
(* A document is modelled by the part of its PyPDF2 object graph that the  *)
(* code walks: trailer /Root, catalog /AcroForm and /Names, the /Fields    *)
(* array and, per field, /T /FT /V /Opt /MK /AP.  Every place where the    *)
(* code reads a key with dict.get (which hands back the stored object,     *)
(* an IndirectObject included) is modelled with the stored shape, "direct" *)
(* or "indirect"; a subscript d[key] resolves the reference.  A Python     *)
(* exception is the status "raise" of the result of an operator.           *)
(***************************************************************************)
EXTENDS Integers, Sequences, FiniteSets, TLC

VARIABLES doc, pc, fields, rec, ret, call, reader, drv, cyc, io

vars == <<doc, pc, fields, rec, ret, call, reader, drv, cyc, io>>

(***************************************************************************)
(* Bounds of the model.                                                    *)
(***************************************************************************)
MaxFields == 2
MaxXObj == 2
MaxOpt == 2

SeqUpTo(S, n) == UNION {[1..k -> S] : k \in 0..n}

(***************************************************************************)
(* Field names (module constants of the extractors).                       *)
(***************************************************************************)
DOC_NUM_FIELD == "Doc Num"
CORNER_OF_SECTION_FIELD == "Corner of Section"
TOWNSHIP_FIELD == "Township"
RANGE_FIELD == "Range"
COUNTY_FIELD == "County"
SURVEY_IMAGE_FIELD == "Survey Image"

\* A key that a dictionary does not hold: dict.get gives None.
NoKey == "<none>"
\* The PDF null object: PyPDF2 reads it as a NullObject instance, not None.
PdfNull == "<null>"
\* str() of an IndirectObject: its repr, not the object it refers to.
ReprRef == "IndirectObject(n, 0, id)"

(***************************************************************************)
(* Stored shapes.                                                          *)
(*   /Opt : st in absent | direct | indirect, items a sequence of          *)
(*          [k: str | pair | refpair, e: export, d: display]               *)
(*   /MK  : absent | noI | I | nullI | refI | refNoI                       *)
(*   /AP  : st in absent | direct | indirect; n (the /N entry) in          *)
(*          absent | stream | dict | dangling; enc in decoded | encoded;   *)
(*          res (/Resources) and xo (/XObject) in absent|direct|indirect;  *)
(*          ents the /Subtype of each /XObject entry: Image|Form|Dangling  *)
(***************************************************************************)
NoOpt == [st |-> "absent", items |-> <<>>]
NoAP == [st |-> "absent", n |-> "absent", enc |-> "decoded", res |-> "absent",
         xo |-> "absent", ents |-> <<>>]
StreamAP(enc, res, xo, ents) ==
    [st |-> "direct", n |-> "stream", enc |-> enc, res |-> res, xo |-> xo,
     ents |-> ents]
PlainAP(st, n) == [NoAP EXCEPT !.st = st, !.n = n]

Fld(t, ft, v, opt, mk, ap) ==
    [kind |-> "dict", T |-> t, FT |-> ft, V |-> v, Opt |-> opt, MK |-> mk,
     AP |-> ap]
\* An entry of /Fields whose reference resolves to nothing: get_object() is None.
DanglingEntry ==
    [kind |-> "dangling", T |-> NoKey, FT |-> NoKey, V |-> NoKey, Opt |-> NoOpt,
     MK |-> "absent", AP |-> NoAP]
\* Python None where a field object is expected.
NoObj == [DanglingEntry EXCEPT !.kind = "none"]

StrItem(s) == [k |-> "str", e |-> s, d |-> s]
PairItem(e, d) == [k |-> "pair", e |-> e, d |-> d]
RefPairItem(e, d) == [k |-> "refpair", e |-> e, d |-> d]

Document(ex, root, acro, fk, names, gf, fs) ==
    [exists |-> ex, root |-> root, acro |-> acro, fk |-> fk, names |-> names,
     gf |-> gf, fields |-> fs]

(***************************************************************************)
(* str(val) of a stored value.                                             *)
(***************************************************************************)
Str(v) ==
    IF v = PdfNull THEN "NullObject" ELSE v

(***************************************************************************)
(* find_field_obj: the first entry of /Fields whose /T equals field_name.  *)
(* st: "raise" | "none" | "obj".                                           *)
(***************************************************************************)
RECURSIVE FindFrom(_, _, _)
FindFrom(fs, i, field_name) ==
    IF i > Len(fs) THEN [st |-> "none", obj |-> NoObj]
    ELSE IF fs[i].kind = "dangling"
         THEN [st |-> "raise", obj |-> NoObj]       \* None.get("/T")
    ELSE IF fs[i].T = field_name THEN [st |-> "obj", obj |-> fs[i]]
    ELSE FindFrom(fs, i + 1, field_name)

find_field_obj(d, field_name) ==
    IF d.root = "absent" THEN [st |-> "none", obj |-> NoObj]
    ELSE IF d.root = "indirect"
         THEN [st |-> "raise", obj |-> NoObj]       \* IndirectObject has no get
    ELSE IF d.acro = "absent" THEN [st |-> "none", obj |-> NoObj]
    ELSE IF d.fk = "absent" THEN [st |-> "none", obj |-> NoObj]
    ELSE IF d.fk = "indirect"
         THEN [st |-> "raise", obj |-> NoObj]       \* for f in IndirectObject
    ELSE FindFrom(d.fields, 1, field_name)

(***************************************************************************)
(* get_choice_options: the options list after the try block.  An item that *)
(* is a Python list gives str(item[0]); any other item gives str(item).    *)
(***************************************************************************)
OptionString(item) ==
    IF item.k = "pair" THEN Str(item.e)
    ELSE IF item.k = "refpair" THEN ReprRef
    ELSE Str(item.e)

RECURSIVE AppendOptions(_, _, _)
AppendOptions(items, i, options) ==
    IF i > Len(items) THEN options
    ELSE AppendOptions(items, i + 1, Append(options, OptionString(items[i])))

\* The body of the try block: st "raise" leaves options as built so far.
get_choice_options_body(d, field_name) ==
    LET r == find_field_obj(d, field_name) IN
    IF r.st = "raise" THEN [st |-> "raise", val |-> <<>>]
    ELSE IF r.st = "none" THEN [st |-> "ret", val |-> <<>>]
    ELSE IF r.obj.Opt.st = "absent" \/ r.obj.Opt.items = <<>>
         THEN [st |-> "ret", val |-> <<>>]
    ELSE IF r.obj.Opt.st = "indirect"
         THEN [st |-> "raise", val |-> <<>>]        \* for item in IndirectObject
    ELSE [st |-> "ret", val |-> AppendOptions(r.obj.Opt.items, 1, <<>>)]

get_choice_options(d, field_name) ==
    [st |-> "ret", val |-> get_choice_options_body(d, field_name).val]

(***************************************************************************)
(* detect_image_in_button.                                                 *)
(***************************************************************************)
\* xobj.get_object().get("/Subtype") == "/Image", inside the inner try.
XObjIsImage(e) ==
    IF e = "Dangling" THEN [st |-> "raise", val |-> FALSE]
    ELSE [st |-> "ret", val |-> (e = "Image")]

\* The loop without its inner try: the first entry that fails ends the scan.
RECURSIVE ScanXObjects_abort(_, _)
ScanXObjects_abort(ents, i) ==
    IF i > Len(ents) THEN FALSE
    ELSE LET r == XObjIsImage(ents[i]) IN
         IF r.st = "raise" THEN FALSE
         ELSE IF r.val THEN TRUE
         ELSE ScanXObjects_abort(ents, i + 1)

\* for _name, xobj in xo.items(): TRUE when the loop returns True.
RECURSIVE ScanXObjects(_, _)
ScanXObjects(ents, i) ==
    IF i > Len(ents) THEN FALSE
    ELSE LET r == XObjIsImage(ents[i]) IN
         IF r.st = "raise" THEN ScanXObjects(ents, i + 1)       \* continue
         ELSE IF r.val THEN TRUE
         ELSE ScanXObjects(ents, i + 1)

\* mk and mk.get("/I") is not None
IconCheck(mk) ==
    IF mk = "absent" THEN [st |-> "ret", val |-> FALSE]
    ELSE IF mk \in {"refI", "refNoI"}
         THEN [st |-> "raise", val |-> FALSE]       \* IndirectObject has no get
    ELSE [st |-> "ret", val |-> (mk \in {"I", "nullI"})]

\* The appearance-stream scan: st "raise" | "ret", val TRUE when it returns True.
AppearanceScan(ap) ==
    IF ap.st = "absent" THEN [st |-> "ret", val |-> FALSE]
    ELSE IF ap.st = "indirect"
         THEN [st |-> "raise", val |-> FALSE]       \* "/N" in IndirectObject
    ELSE IF ap.n # "stream" THEN [st |-> "ret", val |-> FALSE]
    ELSE IF ap.enc # "decoded"
         THEN [st |-> "ret", val |-> FALSE]         \* not a DecodedStreamObject
    ELSE IF ap.res = "absent" THEN [st |-> "ret", val |-> FALSE]
    ELSE IF ap.res = "indirect"
         THEN [st |-> "raise", val |-> FALSE]       \* IndirectObject has no get
    ELSE IF ap.xo = "absent" THEN [st |-> "ret", val |-> FALSE]
    ELSE [st |-> "ret", val |-> ScanXObjects(ap.ents, 1)]

\* The embedded-files inspection taken as a signal of an image.
EmbeddedFilesCheck_signal(d) ==
    IF d.names = "indirect" THEN [st |-> "raise", val |-> FALSE]
    ELSE [st |-> "ret", val |-> (d.names = "directEF")]

\* names and names.get("/EmbeddedFiles"): inspected, never used.
EmbeddedFilesCheck(d) ==
    IF d.names = "indirect" THEN [st |-> "raise", val |-> FALSE]
    ELSE [st |-> "ret", val |-> FALSE]

\* detect_body without the /FT test.
detect_body_no_type_gate(d, field_name) ==
    LET r == find_field_obj(d, field_name) IN
    IF r.st = "raise" THEN [st |-> "raise", val |-> FALSE]
    ELSE IF r.st = "none" THEN [st |-> "ret", val |-> FALSE]
    ELSE LET ic == IconCheck(r.obj.MK) IN
         IF ic.st = "raise" THEN ic
         ELSE IF ic.val THEN [st |-> "ret", val |-> TRUE]
         ELSE LET sc == AppearanceScan(r.obj.AP) IN
              IF sc.st = "raise" THEN sc
              ELSE IF sc.val THEN [st |-> "ret", val |-> TRUE]
              ELSE EmbeddedFilesCheck(d)

\* detect_body in the order of the docstring: appearance scan, then icon.
detect_body_scan_first(d, field_name) ==
    LET r == find_field_obj(d, field_name) IN
    IF r.st = "raise" THEN [st |-> "raise", val |-> FALSE]
    ELSE IF r.st = "none" THEN [st |-> "ret", val |-> FALSE]
    ELSE IF r.obj.FT # "/Btn" THEN [st |-> "ret", val |-> FALSE]
    ELSE LET sc == AppearanceScan(r.obj.AP) IN
         IF sc.st = "raise" THEN sc
         ELSE IF sc.val THEN [st |-> "ret", val |-> TRUE]
         ELSE LET ic == IconCheck(r.obj.MK) IN
              IF ic.st = "raise" THEN ic
              ELSE IF ic.val THEN [st |-> "ret", val |-> TRUE]
              ELSE EmbeddedFilesCheck(d)

\* The body of the try block.
detect_body(d, field_name) ==
    LET r == find_field_obj(d, field_name) IN
    IF r.st = "raise" THEN [st |-> "raise", val |-> FALSE]
    ELSE IF r.st = "none" THEN [st |-> "ret", val |-> FALSE]
    ELSE IF r.obj.FT # "/Btn" THEN [st |-> "ret", val |-> FALSE]
    ELSE LET ic == IconCheck(r.obj.MK) IN
         IF ic.st = "raise" THEN ic
         ELSE IF ic.val THEN [st |-> "ret", val |-> TRUE]
         ELSE LET sc == AppearanceScan(r.obj.AP) IN
              IF sc.st = "raise" THEN sc
              ELSE IF sc.val THEN [st |-> "ret", val |-> TRUE]
              ELSE EmbeddedFilesCheck(d)

\* detect_image_in_button without its except branch.
detect_image_in_button_no_except(d, field_name) == detect_body(d, field_name)

detect_image_in_button(d, field_name) ==
    LET b == detect_body(d, field_name) IN
    IF b.st = "raise" THEN [st |-> "ret", val |-> FALSE] ELSE b

(***************************************************************************)
(* The field index.  An index is st "none" (Python None) or "map" with map *)
(* a function from the names indexed to their field objects.               *)
(***************************************************************************)
EmptyMap == [n \in {} |-> NoObj]

\* retval[key] = ... / fields[name] = obj over the /Fields array, in order.
RECURSIVE IndexFrom(_, _, _)
IndexFrom(fs, i, acc) ==
    IF i > Len(fs) THEN [st |-> "map", map |-> acc]
    ELSE IF fs[i].kind = "dangling" THEN [st |-> "raise", map |-> EmptyMap]
    ELSE IF fs[i].T = NoKey THEN IndexFrom(fs, i + 1, acc)
    ELSE IndexFrom(fs, i + 1, (fs[i].T :> fs[i]) @@ acc)

\* PyPDF2's reader.get_fields(): None without /AcroForm, else name -> Field.
reader_get_fields(d) ==
    IF d.gf = "throws" \/ d.root = "absent" THEN [st |-> "raise", map |-> EmptyMap]
    ELSE IF d.acro = "absent" THEN [st |-> "none", map |-> EmptyMap]
    ELSE IF d.fk = "absent" THEN [st |-> "map", map |-> EmptyMap]
    ELSE IndexFrom(d.fields, 1, EmptyMap)

\* The except branch of get_fields_dict: the manual traversal.
fields_fallback(d) ==
    IF d.root = "absent" THEN [st |-> "map", map |-> EmptyMap]
    ELSE IF d.root = "indirect"
         THEN [st |-> "raise", map |-> EmptyMap]    \* IndirectObject has no get
    ELSE IF d.acro = "absent" \/ d.fk = "absent" THEN [st |-> "map", map |-> EmptyMap]
    ELSE IndexFrom(d.fields, 1, EmptyMap)

get_fields_dict(d) ==
    LET r == reader_get_fields(d) IN
    IF r.st = "raise" THEN fields_fallback(d) ELSE r

(***************************************************************************)
(* get_value.                                                              *)
(***************************************************************************)
get_value_body(idx, field_name) ==
    IF idx.st = "none" THEN [st |-> "raise", val |-> ""]    \* None.get
    ELSE IF field_name \notin DOMAIN idx.map THEN [st |-> "ret", val |-> ""]
    ELSE IF idx.map[field_name].V = NoKey THEN [st |-> "ret", val |-> ""]
    ELSE [st |-> "ret", val |-> Str(idx.map[field_name].V)]

\* get_value without its except branch.
get_value_no_except(idx, field_name) == get_value_body(idx, field_name)

get_value(idx, field_name) ==
    LET b == get_value_body(idx, field_name) IN
    IF b.st = "raise" THEN [st |-> "ret", val |-> ""] ELSE b

(***************************************************************************)
(* Documents.  Three bounded families; every one is a file PyPDF2 opens.   *)
(***************************************************************************)
OptA == [st |-> "direct", items |-> <<StrItem("a"), PairItem("b", "B")>>]
OptB == [st |-> "direct", items |-> <<StrItem("b")>>]
ImageAP == StreamAP("decoded", "direct", "direct", <<"Image">>)

\* Fields of the documents a session reads.
SessionFields ==
    { Fld(TOWNSHIP_FIELD, "/Ch", "T1", OptA, "absent", NoAP),
      Fld(TOWNSHIP_FIELD, "/Ch", NoKey, OptB, "absent", NoAP),
      Fld(TOWNSHIP_FIELD, "/Ch", PdfNull, NoOpt, "absent", NoAP),
      Fld(SURVEY_IMAGE_FIELD, "/Btn", NoKey, NoOpt, "I", NoAP),
      Fld(SURVEY_IMAGE_FIELD, "/Btn", NoKey, NoOpt, "absent", ImageAP),
      Fld(SURVEY_IMAGE_FIELD, "/Btn", "/Off", NoOpt, "absent", NoAP),
      Fld(SURVEY_IMAGE_FIELD, "/Tx", "T2", NoOpt, "I", NoAP),
      Fld(NoKey, "/Tx", "T2", OptB, "absent", NoAP),
      DanglingEntry }

\* The shapes of trailer, catalog and /Fields around a field list.
Envelopes(roots, acros, fks, nameses, gfs, lists) ==
    { Document(TRUE, r, a, k, n, g, fs) :
        r \in roots, a \in acros, k \in fks, n \in nameses, g \in gfs,
        fs \in lists }

SessionDocs ==
    { Document(FALSE, "indirect", "absent", "absent", "absent", "ok", <<>>),
      Document(TRUE, "absent", "absent", "absent", "absent", "ok", <<>>) }
    \cup Envelopes({"direct", "indirect"}, {"absent"}, {"absent"}, {"absent"},
                   {"ok", "throws"}, {<<>>})
    \cup Envelopes({"direct", "indirect"}, {"direct", "indirect"}, {"absent"},
                   {"absent"}, {"ok", "throws"}, {<<>>})
    \cup Envelopes({"direct", "indirect"}, {"direct", "indirect"},
                   {"direct", "indirect"}, {"absent"}, {"ok", "throws"},
                   SeqUpTo(SessionFields, MaxFields))

\* Entries that surround the field under test.
Fillers == { DanglingEntry, Fld(TOWNSHIP_FIELD, "/Ch", NoKey, OptB, "absent", NoAP) }

\* The lists of at most MaxFields entries that hold f once, among fillers.
ListsAround(f) ==
    { fs \in SeqUpTo(Fillers \cup {f}, MaxFields) :
        Cardinality({i \in 1..Len(fs) : fs[i] = f}) = 1 }

MKs == {"absent", "noI", "I", "nullI", "refI", "refNoI"}

GateAPs ==
    { NoAP, PlainAP("direct", "absent"), PlainAP("direct", "dict"),
      PlainAP("direct", "dangling"), ImageAP,
      [ImageAP EXCEPT !.st = "indirect"], [ImageAP EXCEPT !.enc = "encoded"] }

GateFields ==
    { Fld(SURVEY_IMAGE_FIELD, ft, NoKey, NoOpt, mk, ap) :
        ft \in {"/Btn", "/Tx", NoKey}, mk \in MKs, ap \in GateAPs }

XObjLists == SeqUpTo({"Image", "Form", "Dangling"}, MaxXObj)

ScanAPs ==
    { StreamAP(enc, "absent", "absent", <<>>) : enc \in {"decoded", "encoded"} }
    \cup { StreamAP(enc, res, "absent", <<>>) :
             enc \in {"decoded", "encoded"}, res \in {"direct", "indirect"} }
    \cup { StreamAP(enc, res, xo, ents) :
             enc \in {"decoded", "encoded"}, res \in {"direct", "indirect"},
             xo \in {"direct", "indirect"}, ents \in XObjLists }

ScanFields ==
    { Fld(SURVEY_IMAGE_FIELD, "/Btn", NoKey, NoOpt, mk, ap) :
        mk \in {"absent", "noI"}, ap \in ScanAPs }

NamesKinds == {"absent", "direct", "directEF", "indirect"}

ImageDocs ==
    Envelopes({"direct", "indirect"}, {"direct"}, {"direct"}, NamesKinds, {"ok"},
              UNION {ListsAround(f) : f \in GateFields})
    \cup Envelopes({"direct"}, {"direct", "indirect"}, {"direct"}, NamesKinds,
                   {"ok"}, {<<f>> : f \in ScanFields})

OptItems ==
    { StrItem("a"), StrItem("b"), PairItem("a", "A"), PairItem("b", "B"),
      RefPairItem("a", "A") }

OptFields ==
    { Fld(COUNTY_FIELD, "/Ch", NoKey, NoOpt, "absent", NoAP) }
    \cup { Fld(COUNTY_FIELD, "/Ch", NoKey, [st |-> st, items |-> items], "absent",
               NoAP) :
             st \in {"direct", "indirect"}, items \in SeqUpTo(OptItems, MaxOpt) }

OptionDocs ==
    Envelopes({"direct", "indirect"}, {"direct"}, {"direct"}, {"absent"}, {"ok"},
              UNION {ListsAround(f) : f \in OptFields})

(***************************************************************************)
(* State.                                                                  *)
(*   doc    the document of the session / of the call                      *)
(*   pc     the position of process_pdf                                    *)
(*   fields the index process_pdf holds                                    *)
(*   rec    the record process_pdf assembles                               *)
(*   ret    what process_pdf returned: "unset" | "None" | "record"         *)
(*   call   the last direct call of a reader function and its result       *)
(*   reader the local reader of process_pdf: "held" from load_reader until *)
(*          the frame is left, "none" otherwise                            *)
(*   drv    the batch driver: its file list, position and results          *)
(*   cyc    the recurring driver: clock, parameters, counters              *)
(*   io     the text written and re-read: option cells, console output     *)
(***************************************************************************)
NoIndex == [st |-> "unset", map |-> EmptyMap]

NoCall ==
    [fn |-> "", name |-> "", st |-> "ret", b |-> FALSE, s |-> "", opts |-> <<>>,
     idx |-> NoIndex]

EmptyRec ==
    [doc_num |-> "", corner_of_section |-> "", township |-> "", range |-> "",
     county |-> "", image_present_bool |-> FALSE, image_present_flag |-> "",
     township_options |-> <<>>, range_options |-> <<>>, county_options |-> <<>>]

\* The drivers and the text functions at rest.
NoDrv ==
    [kind |-> "", dpc |-> "off", files |-> <<>>, i |-> 0, results |-> <<>>,
     pdf_count |-> 0, success_count |-> 0]

NoCyc ==
    [cpc |-> "off", duration |-> 0, interval |-> 0, now |-> 0, start_time |-> 0,
     cycle_count |-> 0, pdf_count |-> 0, success_count |-> 0, files |-> <<>>,
     counts |-> <<>>, total_processed |-> 0, total_success |-> 0,
     all_results |-> <<>>, seen_identifiers |-> {},
     outcome |-> "none", parsed_files |-> {}, first_of |-> <<>>]

NoIo == [stage |-> "off", cell |-> <<>>, recs |-> <<>>,
         out |-> <<>>, parsed |-> <<>>]

\* The flag with its two values exchanged.
FlagOf_swapped(b) == IF b THEN "N" ELSE "Y"

\* "Y" if image_present_bool else "N"
FlagOf(b) == IF b THEN "Y" ELSE "N"

\* No document: the session is not running.
NoDocument == Document(FALSE, "absent", "absent", "absent", "absent", "ok", <<>>)

SessionOff ==
    /\ doc = NoDocument
    /\ pc = "off"
    /\ fields = NoIndex
    /\ rec = EmptyRec
    /\ ret = "unset"
    /\ call = NoCall
    /\ reader = "none"

InitWith(docs, start) ==
    /\ doc \in docs
    /\ pc = start
    /\ fields = NoIndex
    /\ rec = EmptyRec
    /\ ret = "unset"
    /\ call = NoCall
    /\ reader = "none"
    /\ drv = NoDrv
    /\ cyc = NoCyc
    /\ io = NoIo

(***************************************************************************)
(* process_pdf (pdf_form_extractor2.0.py), one action per statement group. *)
(***************************************************************************)
\* reader = load_reader(pdf_path); a failure goes to the except branch.
LoadReader ==
    /\ pc = "start"
    /\ IF doc.exists
       THEN pc' = "fields" /\ ret' = ret /\ reader' = "held"
       ELSE pc' = "done" /\ ret' = "None" /\ reader' = "none"
    /\ UNCHANGED <<drv, cyc, io, doc, fields, rec, call>>

\* fields = get_fields_dict(reader)
BuildIndex ==
    /\ pc = "fields"
    /\ LET r == get_fields_dict(doc) IN
       IF r.st = "raise"
       THEN pc' = "done" /\ ret' = "None" /\ fields' = fields /\ reader' = "none"
       ELSE pc' = "values" /\ ret' = ret /\ fields' = r /\ reader' = reader
    /\ UNCHANGED <<drv, cyc, io, doc, rec, call>>

ReadValues ==
    /\ pc = "values"
    /\ rec' = [rec EXCEPT
                !.doc_num = get_value(fields, DOC_NUM_FIELD).val,
                !.corner_of_section = get_value(fields, CORNER_OF_SECTION_FIELD).val,
                !.township = get_value(fields, TOWNSHIP_FIELD).val,
                !.range = get_value(fields, RANGE_FIELD).val,
                !.county = get_value(fields, COUNTY_FIELD).val]
    /\ pc' = "options"
    /\ UNCHANGED <<drv, cyc, io, reader, doc, fields, ret, call>>

ReadOptions ==
    /\ pc = "options"
    /\ rec' = [rec EXCEPT
                !.township_options = get_choice_options(doc, TOWNSHIP_FIELD).val,
                !.range_options = get_choice_options(doc, RANGE_FIELD).val,
                !.county_options = get_choice_options(doc, COUNTY_FIELD).val]
    /\ pc' = "image"
    /\ UNCHANGED <<drv, cyc, io, reader, doc, fields, ret, call>>

DetectImage ==
    /\ pc = "image"
    /\ LET b == detect_image_in_button(doc, SURVEY_IMAGE_FIELD).val IN
       rec' = [rec EXCEPT !.image_present_bool = b,
                          !.image_present_flag = FlagOf(b)]
    /\ pc' = "emit"
    /\ UNCHANGED <<drv, cyc, io, reader, doc, fields, ret, call>>

\* The return with the reader kept reachable from the record.
ReturnRecord_keeps_reader ==
    /\ pc = "emit"
    /\ ret' = "record"
    /\ pc' = "done"
    /\ UNCHANGED <<drv, cyc, io, reader, doc, fields, rec, call>>

\* return {...}: the frame is left, its reader with it.
ReturnRecord ==
    /\ pc = "emit"
    /\ ret' = "record"
    /\ pc' = "done"
    /\ reader' = "none"
    /\ UNCHANGED <<drv, cyc, io, doc, fields, rec, call>>

NextSession ==
    \/ LoadReader
    \/ BuildIndex
    \/ ReadValues
    \/ ReadOptions
    \/ DetectImage
    \/ ReturnRecord

(***************************************************************************)
(* Direct calls of the reader functions on the document.                   *)
(***************************************************************************)
CallNames == {TOWNSHIP_FIELD, COUNTY_FIELD, SURVEY_IMAGE_FIELD}

CallGetFieldsDict ==
    /\ pc = "idle"
    /\ LET r == get_fields_dict(doc) IN
       call' = [NoCall EXCEPT !.fn = "get_fields_dict",
                              !.st = IF r.st = "raise" THEN "raise" ELSE "ret",
                              !.idx = r]
    /\ UNCHANGED <<drv, cyc, io, reader, doc, pc, fields, rec, ret>>

\* get_value on the index get_fields_dict returned.
CallGetValue ==
    /\ pc = "idle"
    /\ get_fields_dict(doc).st # "raise"
    /\ \E n \in CallNames :
         LET r == get_value(get_fields_dict(doc), n) IN
         call' = [NoCall EXCEPT !.fn = "get_value", !.name = n, !.st = r.st,
                                !.s = r.val]
    /\ UNCHANGED <<drv, cyc, io, reader, doc, pc, fields, rec, ret>>

CallGetChoiceOptions ==
    /\ pc = "idle"
    /\ \E n \in CallNames :
         LET r == get_choice_options(doc, n) IN
         call' = [NoCall EXCEPT !.fn = "get_choice_options", !.name = n,
                                !.st = r.st, !.opts = r.val]
    /\ UNCHANGED <<drv, cyc, io, reader, doc, pc, fields, rec, ret>>

CallDetect ==
    /\ pc = "idle"
    /\ \E n \in CallNames :
         LET r == detect_image_in_button(doc, n) IN
         call' = [NoCall EXCEPT !.fn = "detect_image_in_button", !.name = n,
                                !.st = r.st, !.b = r.val]
    /\ UNCHANGED <<drv, cyc, io, reader, doc, pc, fields, rec, ret>>

NextCalls ==
    \/ CallGetFieldsDict
    \/ CallGetValue
    \/ CallGetChoiceOptions
    \/ CallDetect

NextDetect == CallDetect

NextOptions == CallGetChoiceOptions

(***************************************************************************)
(* Text.  A Python string is a sequence of tokens; a token is one of the   *)
(* characters the code splits or strips on (":", ",", " ", "\n") or a word *)
(* that holds none of them.                                                *)
(***************************************************************************)
Blank == {" ", "\n"}

\* '---' in word: the words that hold three dashes.
DashLine == "--------------------------------------------------"
DashWords == {"---", DashLine}

ResultsFor == "Extraction results for"

\* sep.join(list)
RECURSIVE join(_, _)
join(sep, list) ==
    IF list = <<>> THEN <<>>
    ELSE IF Len(list) = 1 THEN list[1]
    ELSE list[1] \o sep \o join(sep, Tail(list))

\* s.find(c): the first position of c in s, 0 when there is none.
FirstIndex(s, c) ==
    IF \E i \in 1..Len(s) : s[i] = c
    THEN CHOOSE i \in 1..Len(s) : s[i] = c /\ \A j \in 1..(i - 1) : s[j] # c
    ELSE 0

\* s.split(c)
RECURSIVE split(_, _)
split(s, c) ==
    LET k == FirstIndex(s, c) IN
    IF k = 0 THEN <<s>>
    ELSE <<SubSeq(s, 1, k - 1)>> \o split(SubSeq(s, k + 1, Len(s)), c)

\* s.split(c, 1)
split1(s, c) ==
    LET k == FirstIndex(s, c) IN
    IF k = 0 THEN <<s>>
    ELSE <<SubSeq(s, 1, k - 1), SubSeq(s, k + 1, Len(s))>>

RECURSIVE lstrip(_)
lstrip(s) == IF s # <<>> /\ Head(s) \in Blank THEN lstrip(Tail(s)) ELSE s

RECURSIVE rstrip(_)
rstrip(s) ==
    IF s # <<>> /\ s[Len(s)] \in Blank THEN rstrip(SubSeq(s, 1, Len(s) - 1)) ELSE s

\* s.strip()
strip(s) == rstrip(lstrip(s))

\* s.replace(', ', ',')
RECURSIVE replace(_)
replace(s) ==
    IF Len(s) < 2 THEN s
    ELSE IF s[1] = "," /\ s[2] = " " THEN <<",">> \o replace(SubSeq(s, 3, Len(s)))
    ELSE <<s[1]>> \o replace(Tail(s))

\* ",".join(opts) if opts else ""  (pdfextract2.0.py, the cell of the table)
OptionsCell(opts) == IF opts # <<>> THEN join(<<",">>, opts) ELSE <<>>

\* ', '.join(opts) if opts else 'None'  (the text process_pdf prints)
OptionsText(opts) == IF opts # <<>> THEN join(<<",", " ">>, opts) ELSE <<"None">>

\* str(image_present_bool)
StrBool(b) == IF b THEN <<"True">> ELSE <<"False">>

\* print(f"{key}: {value}")
PrintLine(key, value) == <<key, ":", " ">> \o value \o <<"\n">>

\* [ts()]: a timestamp holds colons.
Stamp == <<"[", "hh", ":", "mm", "]", " ">>

\* What process_pdf prints for a document it extracted.
PrintResults(r) ==
    Stamp \o <<"INFO", ":", " ", "Processing", " ">> \o r.filename \o <<"\n">>
    \o Stamp \o <<"INFO", ":", " ", ResultsFor, " ">> \o r.filename \o <<":", "\n">>
    \o PrintLine("Doc Num", r.doc_num)
    \o PrintLine("Corner of Section", r.corner_of_section)
    \o PrintLine("Township (value)", r.township)
    \o PrintLine("Range (value)", r.range)
    \o PrintLine("County (value)", r.county)
    \o PrintLine("Image present (bool)", StrBool(r.image_present_bool))
    \o PrintLine("Image present (Y/N)", <<r.image_present_flag>>)
    \o PrintLine("Township options", OptionsText(r.township_options))
    \o PrintLine("Range options", OptionsText(r.range_options))
    \o PrintLine("County options", OptionsText(r.county_options))
    \o <<DashLine, "\n">>

RECURSIVE PrintAll(_)
PrintAll(rs) == IF rs = <<>> THEN <<>> ELSE PrintResults(Head(rs)) \o PrintAll(Tail(rs))

\* The captured stdout of the batch script: start line, the documents,
\* summary line.
BatchOutput(rs) ==
    Stamp \o <<"INFO", ":", " ", "Starting batch", "\n">>
    \o PrintAll(rs)
    \o Stamp \o <<"INFO", ":", " ", "Processed", "\n">>

(***************************************************************************)
(* parse_batch_output (pdfextract3.0.py, the same in pdfextract4.0.py).    *)
(* A parsed record is a function from the keys set so far to their values. *)
(***************************************************************************)
key_map ==
    [k \in {"Doc Num", "Corner of Section", "Township (value)", "Range (value)",
            "County (value)", "Image present (bool)", "Image present (Y/N)",
            "Township options", "Range options", "County options"} |->
        CASE k = "Doc Num" -> "doc_num"
          [] k = "Corner of Section" -> "corner_of_section"
          [] k = "Township (value)" -> "township"
          [] k = "Range (value)" -> "range"
          [] k = "County (value)" -> "county"
          [] k = "Image present (bool)" -> "image_present_bool"
          [] k = "Image present (Y/N)" -> "image_present_flag"
          [] k = "Township options" -> "township_options"
          [] k = "Range options" -> "range_options"
          [] k = "County options" -> "county_options"]

\* 'options' in mapped_key
OptionKeys == {"township_options", "range_options", "county_options"}

NoCurrent == [st |-> "None", d |-> <<>>]

Contains(line, words) == \E i \in 1..Len(line) : line[i] \in words

\* re.search(r'Extraction results for (.+):', line): the leftmost place of
\* the literal, the group running to the last colon of the line.
HeaderMatch(line) ==
    LET starts == {k \in 1..Len(line) :
                     /\ line[k] = ResultsFor /\ k + 1 <= Len(line)
                     /\ line[k + 1] = " "
                     /\ \E m \in (k + 3)..Len(line) : line[m] = ":"}
    IN IF starts = {} THEN [st |-> "None", group |-> <<>>]
       ELSE LET k == CHOOSE x \in starts : \A y \in starts : x <= y
                m == CHOOSE x \in (k + 3)..Len(line) :
                        /\ line[x] = ":"
                        /\ \A y \in (x + 1)..Len(line) : line[y] # ":"
            IN [st |-> "match", group |-> SubSeq(line, k + 2, m - 1)]

\* The value stored for a keyed line.
ParsedValue(mapped_key, value) ==
    IF mapped_key = "image_present_bool" THEN value = <<"True">>
    ELSE IF mapped_key \in OptionKeys
         THEN IF value = <<"None">> \/ value = <<>> THEN <<>> ELSE replace(value)
    ELSE value

\* elif current_result and ':' in line
KeyedLine(line, current) ==
    LET parts == split1(line, ":")
        key == strip(parts[1])
        value == strip(parts[2])
    IN IF Len(key) = 1 /\ key[1] \in DOMAIN key_map
       THEN [current EXCEPT
               !.d = (key_map[key[1]] :> ParsedValue(key_map[key[1]], value)) @@ @]
       ELSE current

\* The loop with a dashed line that appends the record and keeps it current.
RECURSIVE ParseLines_keeps_current(_, _, _, _)
ParseLines_keeps_current(lines, i, results, current) ==
    IF i > Len(lines)
    THEN IF current.st = "dict" THEN Append(results, current.d) ELSE results
    ELSE LET line == lines[i] IN
         IF Contains(line, {ResultsFor})
         THEN LET m == HeaderMatch(line) IN
              IF m.st = "match"
              THEN ParseLines_keeps_current(lines, i + 1,
                              IF current.st = "dict" THEN Append(results, current.d)
                              ELSE results,
                              [st |-> "dict", d |-> ("filename" :> m.group)])
              ELSE ParseLines_keeps_current(lines, i + 1, results, current)
         ELSE IF current.st = "dict" /\ Contains(line, {":"})
              THEN ParseLines_keeps_current(lines, i + 1, results,
                                            KeyedLine(line, current))
         ELSE IF Contains(line, DashWords) /\ current.st = "dict"
              THEN ParseLines_keeps_current(lines, i + 1,
                                            Append(results, current.d), current)
         ELSE ParseLines_keeps_current(lines, i + 1, results, current)

\* for line in lines: ...; if current_result: results.append(current_result)
RECURSIVE ParseLines(_, _, _, _)
ParseLines(lines, i, results, current) ==
    IF i > Len(lines)
    THEN IF current.st = "dict" THEN Append(results, current.d) ELSE results
    ELSE LET line == lines[i] IN
         IF Contains(line, {ResultsFor})
         THEN LET m == HeaderMatch(line) IN
              IF m.st = "match"
              THEN ParseLines(lines, i + 1,
                              IF current.st = "dict" THEN Append(results, current.d)
                              ELSE results,
                              [st |-> "dict", d |-> ("filename" :> m.group)])
              ELSE ParseLines(lines, i + 1, results, current)
         ELSE IF current.st = "dict" /\ Contains(line, {":"})
              THEN ParseLines(lines, i + 1, results, KeyedLine(line, current))
         ELSE IF Contains(line, DashWords) /\ current.st = "dict"
              THEN ParseLines(lines, i + 1, Append(results, current.d), NoCurrent)
         ELSE ParseLines(lines, i + 1, results, current)

parse_batch_output(output) ==
    ParseLines(split(strip(output), "\n"), 1, <<>>, NoCurrent)

(***************************************************************************)
(* The records whose options are written to a cell and whose results are   *)
(* printed and parsed back.  Values and options are text a form can hold.  *)
(***************************************************************************)
OptWords ==
    { <<"a">>, <<"b">>, <<" ", "a">>, <<"None">>, <<"a", ",", "b">>,
      <<"a", "\n", "Image present (bool)", ":", " ", "False">> }

DocNumTexts == { <<>>, <<"a">>, <<"a", "\n", "---">> }

PrintedRecs ==
    { [filename |-> <<"x.pdf">>, doc_num |-> dn, corner_of_section |-> <<>>,
       township |-> <<>>, range |-> <<>>, county |-> <<"c">>,
       image_present_bool |-> b, image_present_flag |-> FlagOf(b),
       township_options |-> <<>>, range_options |-> <<"a">>,
       county_options |-> opts] :
        dn \in DocNumTexts, b \in BOOLEAN, opts \in SeqUpTo(OptWords, MaxOpt) }

\* process_pdf of pdfextract2.0.py, lines 55-57: the option cell.
JoinOptions ==
    /\ io.stage = "ready"
    /\ io' = [io EXCEPT !.stage = "joined",
                        !.cell = OptionsCell(io.recs[1].county_options)]
    /\ UNCHANGED <<drv, cyc, reader, doc, pc, fields, rec, ret, call>>

\* The batch script prints its results (captured by subprocess.run).
PrintBatch ==
    /\ io.stage = "ready"
    /\ io' = [io EXCEPT !.stage = "printed", !.out = BatchOutput(io.recs)]
    /\ UNCHANGED <<drv, cyc, reader, doc, pc, fields, rec, ret, call>>

\* results_list = parse_batch_output(batch_output)
ParseBatch ==
    /\ io.stage = "printed"
    /\ io' = [io EXCEPT !.stage = "parsed", !.parsed = parse_batch_output(io.out)]
    /\ UNCHANGED <<drv, cyc, reader, doc, pc, fields, rec, ret, call>>

NextOutput ==
    \/ JoinOptions
    \/ PrintBatch
    \/ ParseBatch

(***************************************************************************)
(* Console output as result blocks: a header line, the labelled lines      *)
(* printed before process_pdf stopped, and the dashed line or, when a      *)
(* print failed, the error line of process_pdf.                            *)
(***************************************************************************)
MaxBlocks == 2

\* The labelled lines process_pdf prints after the header, in order.
ResultLines(r) ==
    << [label |-> "Doc Num", value |-> r.doc_num],
       [label |-> "Corner of Section", value |-> r.corner_of_section],
       [label |-> "Township (value)", value |-> r.township],
       [label |-> "Range (value)", value |-> r.range],
       [label |-> "County (value)", value |-> r.county],
       [label |-> "Image present (bool)", value |-> StrBool(r.image_present_bool)],
       [label |-> "Image present (Y/N)", value |-> <<r.image_present_flag>>],
       [label |-> "Township options", value |-> OptionsText(r.township_options)],
       [label |-> "Range options", value |-> OptionsText(r.range_options)],
       [label |-> "County options", value |-> OptionsText(r.county_options)] >>

RECURSIVE PrintLines(_, _)
PrintLines(ls, n) ==
    IF n = 0 THEN <<>>
    ELSE PrintLines(ls, n - 1) \o PrintLine(ls[n].label, ls[n].value)

\* What process_pdf prints for one file: b.upto labelled lines were printed.
PrintBlock(b) ==
    Stamp \o <<"INFO", ":", " ", "Processing", " ">> \o b.r.filename \o <<"\n">>
    \o Stamp \o <<"INFO", ":", " ", ResultsFor, " ">> \o b.r.filename \o <<":", "\n">>
    \o PrintLines(ResultLines(b.r), b.upto)
    \o IF b.dash THEN <<DashLine, "\n">>
       ELSE Stamp \o <<"ERROR during extraction of", " ">> \o b.r.filename
            \o <<":", " ", "e", "\n">>

RECURSIVE PrintBlocks(_)
PrintBlocks(bs) ==
    IF bs = <<>> THEN <<>> ELSE PrintBlock(Head(bs)) \o PrintBlocks(Tail(bs))

\* The captured stdout: start line, the blocks, summary line.
BlocksOutput(bs) ==
    Stamp \o <<"INFO", ":", " ", "Starting batch", "\n">>
    \o PrintBlocks(bs)
    \o Stamp \o <<"INFO", ":", " ", "Processed", "\n">>

\* The values of the files of a folder (one-line values).
BlockRecs ==
    { [filename |-> f, doc_num |-> dn, corner_of_section |-> <<"NE">>,
       township |-> <<>>, range |-> dn, county |-> <<"c">>,
       image_present_bool |-> (dn # <<>>), image_present_flag |-> FlagOf(dn # <<>>),
       township_options |-> <<>>, range_options |-> <<f, dn>>,
       county_options |-> <<>>] :
        f \in { <<"x.pdf">>, <<"y.pdf">> }, dn \in { <<"7">>, <<"8">> } }

\* No labelled line, two of them, or all ten.
Printed == {0, 2, Len(ResultLines(CHOOSE r \in BlockRecs : TRUE))}

Blocks == [r : BlockRecs, upto : Printed, dash : BOOLEAN]

\* batch_output = batch_result.stdout
CaptureOutput ==
    /\ io.stage = "blocks"
    /\ io' = [io EXCEPT !.stage = "printed", !.out = BlocksOutput(io.recs)]
    /\ UNCHANGED <<drv, cyc, reader, doc, pc, fields, rec, ret, call>>

NextBlocks ==
    \/ CaptureOutput
    \/ ParseBatch

(***************************************************************************)
(* The batch drivers: main of pdf_form_extractor2.0.py ("extractor2"),     *)
(* process_batch of pdf_form_extractor3.0.py ("extractor3") and main of    *)
(* pdfextract2.0.py ("pdfextract2"), over the files glob returned.         *)
(***************************************************************************)
MaxBatch == 2

BatchKinds == {"extractor2", "extractor3", "pdfextract2"}

\* A file PyPDF2 cannot open, a form, a document without form, and a form
\* whose /Fields array holds an entry that does not resolve.
UnreadableDoc == Document(FALSE, "direct", "absent", "absent", "absent", "ok", <<>>)
FormDoc ==
    Document(TRUE, "direct", "direct", "direct", "absent", "ok",
             << Fld(TOWNSHIP_FIELD, "/Ch", "T1", OptA, "absent", NoAP),
                Fld(SURVEY_IMAGE_FIELD, "/Btn", NoKey, NoOpt, "I", NoAP) >>)
PlainDoc == Document(TRUE, "direct", "absent", "absent", "absent", "ok", <<>>)
BrokenDoc ==
    Document(TRUE, "direct", "direct", "direct", "absent", "ok", <<DanglingEntry>>)

BatchDocs == {UnreadableDoc, FormDoc, PlainDoc, BrokenDoc}

\* What process_pdf returns for a document: None from its except branch
\* (load_reader or get_fields_dict raised), a record otherwise.
process_pdf_returns(d) ==
    IF ~d.exists THEN "None"
    ELSE IF get_fields_dict(d).st = "raise" THEN "None"
    ELSE "record"

\* pdf_files = glob.glob(...); if not pdf_files: exit or return 0, 0
Enumerate ==
    /\ drv.dpc = "glob"
    /\ drv' = [drv EXCEPT !.dpc = IF drv.files # <<>> THEN "loop"
                                  ELSE IF drv.kind = "extractor3" THEN "returned"
                                  ELSE "exited"]
    /\ UNCHANGED <<cyc, io, reader, doc, pc, fields, rec, ret, call>>

\* for pdf_path in pdf_files: result = process_pdf(pdf_path)
BeginFile ==
    /\ drv.dpc = "loop" /\ drv.i < Len(drv.files)
    /\ drv' = [drv EXCEPT !.dpc = "in_pdf", !.i = @ + 1]
    /\ doc' = drv.files[drv.i + 1]
    /\ pc' = IF drv.kind = "pdfextract2" THEN "wrapper" ELSE "start"
    /\ fields' = NoIndex /\ rec' = EmptyRec /\ ret' = "unset"
    /\ UNCHANGED <<cyc, io, reader, call>>

\* One option per token, joined as the cell of the table.
CellOf(opts) == OptionsCell([k \in 1..Len(opts) |-> <<opts[k]>>])

\* process_pdf of pdfextract2.0.py: pdf_form_extractor.main() first, whose
\* sys.exit(2) / sys.exit(3) raise SystemExit, which except Exception does
\* not catch; then the extraction again, with the options as cells.  The
\* except branch of the wrapper is never taken: whatever would raise in the
\* second extraction has ended the process in main().
WrapperProcessPdf ==
    /\ pc = "wrapper"
    /\ LET idx == get_fields_dict(doc) IN
       IF ~doc.exists \/ idx.st = "raise"
       THEN /\ drv' = [drv EXCEPT !.dpc = "exited"]
            /\ pc' = "off" /\ rec' = rec /\ ret' = ret /\ fields' = fields
       ELSE /\ drv' = drv
            /\ pc' = "done" /\ ret' = "record" /\ fields' = idx
            /\ LET b == detect_image_in_button(doc, SURVEY_IMAGE_FIELD).val IN
               rec' = [doc_num |-> get_value(idx, DOC_NUM_FIELD).val,
                       corner_of_section |->
                           get_value(idx, CORNER_OF_SECTION_FIELD).val,
                       township |-> get_value(idx, TOWNSHIP_FIELD).val,
                       range |-> get_value(idx, RANGE_FIELD).val,
                       county |-> get_value(idx, COUNTY_FIELD).val,
                       image_present_bool |-> b,
                       image_present_flag |-> FlagOf(b),
                       township_options |->
                           CellOf(get_choice_options(doc, TOWNSHIP_FIELD).val),
                       range_options |->
                           CellOf(get_choice_options(doc, RANGE_FIELD).val),
                       county_options |->
                           CellOf(get_choice_options(doc, COUNTY_FIELD).val)]
    /\ UNCHANGED <<cyc, io, reader, doc, call>>

\* if result: results.append(result)
Collect ==
    /\ drv.dpc = "in_pdf" /\ pc = "done"
    /\ drv' = [drv EXCEPT
                 !.dpc = "loop",
                 !.results = IF ret = "record"
                             THEN Append(@, [path |-> drv.i, rec |-> rec])
                             ELSE @]
    /\ pc' = "off"
    /\ UNCHANGED <<cyc, io, reader, doc, fields, rec, ret, call>>

\* After the loop: the summary line, the return of the counts, the table.
Summary ==
    /\ drv.dpc = "loop" /\ drv.i = Len(drv.files)
    /\ drv' = [drv EXCEPT !.dpc = IF drv.kind = "extractor3" THEN "returned"
                                  ELSE "done",
                          !.pdf_count = Len(drv.files),
                          !.success_count = Len(drv.results)]
    /\ UNCHANGED <<cyc, io, reader, doc, pc, fields, rec, ret, call>>

NextBatch ==
    \/ Enumerate
    \/ BeginFile
    \/ LoadReader
    \/ BuildIndex
    \/ ReadValues
    \/ ReadOptions
    \/ DetectImage
    \/ ReturnRecord
    \/ WrapperProcessPdf
    \/ Collect
    \/ Summary

(***************************************************************************)
(* The recurring driver: main of pdf_form_extractor3.0.py.  Time is in     *)
(* whole seconds from the start; the folder may change between cycles.     *)
(***************************************************************************)
MaxDuration == 2
MaxInterval == 1
MaxStep == 1
MaxCycles == 2

\* --duration and --interval are any int; a negative one is accepted.
Durations == (0 - 1)..MaxDuration
Intervals == (0 - 1)..MaxInterval

\* The folder at the start of a cycle.
Folders == SeqUpTo({UnreadableDoc, FormDoc}, MaxBatch)

\* The loop of process_batch: results of the files process_pdf gave a
\* record for.
RECURSIVE BatchLoop(_, _, _)
BatchLoop(pdf_files, i, results) ==
    IF i > Len(pdf_files) THEN results
    ELSE BatchLoop(pdf_files, i + 1,
                   IF process_pdf_returns(pdf_files[i]) = "record"
                   THEN Append(results, i) ELSE results)

\* The counts returned with attempted and succeeded exchanged.
process_batch_swapped(pdf_files) ==
    IF pdf_files = <<>> THEN [pdf_count |-> 0, success_count |-> 0]
    ELSE [pdf_count |-> Len(BatchLoop(pdf_files, 1, <<>>)),
          success_count |-> Len(pdf_files)]

\* return len(pdf_files), len(results); 0, 0 without folder or files.
process_batch(pdf_files) ==
    IF pdf_files = <<>> THEN [pdf_count |-> 0, success_count |-> 0]
    ELSE [pdf_count |-> Len(pdf_files),
          success_count |-> Len(BatchLoop(pdf_files, 1, <<>>))]

\* The loop test with <= in place of <.
LoopTest_inclusive ==
    /\ cyc.cpc = "test"
    /\ cyc.now - cyc.start_time <= cyc.duration => cyc.cycle_count < MaxCycles
    /\ cyc' = IF cyc.now - cyc.start_time <= cyc.duration
              THEN [cyc EXCEPT !.cpc = "cycle", !.cycle_count = @ + 1]
              ELSE [cyc EXCEPT !.cpc = "summary"]
    /\ UNCHANGED <<drv, io, reader, doc, pc, fields, rec, ret, call>>

\* while time.time() - start_time < duration: cycle_count += 1
\* (at most MaxCycles cycles are followed; leaving the loop is never cut).
LoopTest ==
    /\ cyc.cpc = "test"
    /\ cyc.now - cyc.start_time < cyc.duration => cyc.cycle_count < MaxCycles
    /\ cyc' = IF cyc.now - cyc.start_time < cyc.duration
              THEN [cyc EXCEPT !.cpc = "cycle", !.cycle_count = @ + 1]
              ELSE [cyc EXCEPT !.cpc = "summary"]
    /\ UNCHANGED <<drv, io, reader, doc, pc, fields, rec, ret, call>>

\* pdf_count, success_count = process_batch(...); the totals; the cycle
\* takes dt seconds.
RunProcessBatch ==
    /\ cyc.cpc = "cycle"
    /\ \E fs \in Folders, dt \in 0..MaxStep :
         LET r == process_batch(fs) IN
         cyc' = [cyc EXCEPT !.cpc = "decide",
                            !.files = fs,
                            !.pdf_count = r.pdf_count,
                            !.success_count = r.success_count,
                            !.counts = Append(@, r),
                            !.total_processed = @ + r.pdf_count,
                            !.total_success = @ + r.success_count,
                            !.now = @ + dt]
    /\ UNCHANGED <<drv, io, reader, doc, pc, fields, rec, ret, call>>

\* if time.time() - start_time + interval <= duration: ... else: break
Decide ==
    /\ cyc.cpc = "decide"
    /\ cyc' = [cyc EXCEPT !.cpc = IF cyc.now - cyc.start_time + cyc.interval
                                        <= cyc.duration
                                  THEN "sleep" ELSE "summary"]
    /\ UNCHANGED <<drv, io, reader, doc, pc, fields, rec, ret, call>>

\* The sleep with a clock that stands still across it.
Sleep_frozen_clock ==
    /\ cyc.cpc = "sleep"
    /\ cyc' = [cyc EXCEPT !.cpc = IF cyc.interval < 0 THEN "crashed" ELSE "test"]
    /\ UNCHANGED <<drv, io, reader, doc, pc, fields, rec, ret, call>>

\* time.sleep(interval): at least interval seconds; ValueError when negative.
Sleep ==
    /\ cyc.cpc = "sleep"
    /\ IF cyc.interval < 0
       THEN cyc' = [cyc EXCEPT !.cpc = "crashed"]
       ELSE \E over \in 0..MaxStep :
              cyc' = [cyc EXCEPT !.cpc = "test", !.now = @ + cyc.interval + over]
    /\ UNCHANGED <<drv, io, reader, doc, pc, fields, rec, ret, call>>

\* The final summary lines.
FinalSummary ==
    /\ cyc.cpc = "summary"
    /\ cyc' = [cyc EXCEPT !.cpc = "done"]
    /\ UNCHANGED <<drv, io, reader, doc, pc, fields, rec, ret, call>>

NextCycle ==
    \/ LoopTest
    \/ RunProcessBatch
    \/ Decide
    \/ Sleep
    \/ FinalSummary

(***************************************************************************)
(* pdfextract4.0.py: process_cycle and main.  The loop of main is the loop *)
(* of pdf_form_extractor3.0.py around process_cycle; all_results and       *)
(* seen_identifiers are main's, outcome, parsed_files and first_of record  *)
(* what the cycles parsed.                                                 *)
(***************************************************************************)
\* identifier = result.get('doc_num') or result.get('filename')
\* (<<>> stands for the falsy values None and '').
identifier(result) ==
    IF "doc_num" \in DOMAIN result /\ result["doc_num"] # <<>>
    THEN result["doc_num"]
    ELSE IF "filename" \in DOMAIN result THEN result["filename"] ELSE <<>>

\* The filter without seen_identifiers.add(identifier).
RECURSIVE FilterUnique_never_adds(_, _, _, _)
FilterUnique_never_adds(results_list, i, seen, unique_results) ==
    IF i > Len(results_list)
    THEN [unique_results |-> unique_results, seen_identifiers |-> seen]
    ELSE LET id == identifier(results_list[i]) IN
         IF id # <<>> /\ id \notin seen
         THEN FilterUnique_never_adds(results_list, i + 1, seen,
                                      Append(unique_results, results_list[i]))
         ELSE FilterUnique_never_adds(results_list, i + 1, seen, unique_results)

\* for result in results_list: if identifier and identifier not in
\* seen_identifiers: add it, append the result.
RECURSIVE FilterUnique(_, _, _, _)
FilterUnique(results_list, i, seen, unique_results) ==
    IF i > Len(results_list)
    THEN [unique_results |-> unique_results, seen_identifiers |-> seen]
    ELSE LET id == identifier(results_list[i]) IN
         IF id # <<>> /\ id \notin seen
         THEN FilterUnique(results_list, i + 1, seen \cup {id},
                           Append(unique_results, results_list[i]))
         ELSE FilterUnique(results_list, i + 1, seen, unique_results)

\* The block the batch script prints for file f with Doc Num dn.
FileBlock(f, dn) ==
    [r |-> [filename |-> f, doc_num |-> dn, corner_of_section |-> <<"NE">>,
            township |-> <<>>, range |-> <<>>, county |-> f,
            image_present_bool |-> FALSE, image_present_flag |-> FlagOf(FALSE),
            township_options |-> <<>>, range_options |-> <<>>,
            county_options |-> <<>>],
     upto |-> Cardinality(DOMAIN key_map), dash |-> TRUE]

\* The files of the folder over the run: two with the same Doc Num, one
\* without a Doc Num whose name is the Doc Num of another.
FileBlocks ==
    { FileBlock(<<"a.pdf">>, <<"7">>), FileBlock(<<"b.pdf">>, <<"7">>),
      FileBlock(<<"c.pdf">>, <<"b.pdf">>), FileBlock(<<"b.pdf">>, <<>>) }

\* What subprocess.run gives in a cycle: the script failed, or its stdout
\* for no file, one file or two files.
CycleRuns ==
    {[st |-> "raise", val |-> <<>>]}
    \cup {[st |-> "ret", val |-> BlocksOutput(bs)] :
            bs \in {<<>>} \cup {<<b>> : b \in FileBlocks}
                   \cup {<<b1, b2>> : b1 \in FileBlocks, b2 \in FileBlocks}}

\* results_list = parse_batch_output(batch_output), for each stdout of
\* CycleRuns.
results_of == [out \in {run.val : run \in CycleRuns} |-> parse_batch_output(out)]

\* process_cycle: run is what subprocess.run gave (CalledProcessError or the
\* stdout); the set seen_identifiers is changed in place.
process_cycle(run, seen_identifiers) ==
    IF run.st = "raise"
    THEN [unique_results |-> <<>>, seen_identifiers |-> seen_identifiers]
    ELSE LET results_list == results_of[run.val] IN
         IF results_list = <<>>
         THEN [unique_results |-> <<>>, seen_identifiers |-> seen_identifiers]
         ELSE FilterUnique(results_list, 1, seen_identifiers, <<>>)

\* The first record parsed for each identifier.
RECURSIVE FirstOf(_, _, _)
FirstOf(results_list, i, first) ==
    IF i > Len(results_list) THEN first
    ELSE LET id == identifier(results_list[i]) IN
         FirstOf(results_list, i + 1,
                 IF id # <<>> /\ id \notin DOMAIN first
                 THEN (id :> results_list[i]) @@ first ELSE first)

\* cycle_results = process_cycle(cycle_count, seen_identifiers);
\* all_results.extend(cycle_results); the cycle takes dt seconds.
RunProcessCycle ==
    /\ cyc.cpc = "cycle"
    /\ \E run \in CycleRuns, dt \in 0..MaxStep :
         LET c == process_cycle(run, cyc.seen_identifiers)
             parsed == IF run.st = "raise" THEN <<>> ELSE results_of[run.val]
         IN cyc' = [cyc EXCEPT
                      !.cpc = "decide",
                      !.all_results = @ \o c.unique_results,
                      !.seen_identifiers = c.seen_identifiers,
                      !.outcome = IF run.st = "raise" THEN "failed"
                                  ELSE IF parsed = <<>> THEN "empty" ELSE "parsed",
                      !.parsed_files =
                          @ \cup {parsed[k]["filename"] : k \in 1..Len(parsed)},
                      !.first_of = FirstOf(parsed, 1, @),
                      !.now = @ + dt]
    /\ UNCHANGED <<drv, io, reader, doc, pc, fields, rec, ret, call>>

\* The columns of the table.
Columns ==
    {"filename", "doc_num", "corner_of_section", "township", "range", "county",
     "image_present_bool", "image_present_flag",
     "township_options", "range_options", "county_options"}

\* After the loop: sys.exit(1) without results; the table (df[columns]
\* raises KeyError for a column no record has), to_excel (sys.exit(1) when it
\* fails), the final summary.
WriteTable ==
    /\ cyc.cpc = "summary"
    /\ LET rs == cyc.all_results IN
       IF rs = <<>> THEN cyc' = [cyc EXCEPT !.cpc = "exited"]
       ELSE IF \E col \in Columns : \A k \in 1..Len(rs) : col \notin DOMAIN rs[k]
            THEN cyc' = [cyc EXCEPT !.cpc = "crashed"]
       ELSE \E written \in BOOLEAN :
              cyc' = [cyc EXCEPT !.cpc = IF written THEN "done" ELSE "exited"]
    /\ UNCHANGED <<drv, io, reader, doc, pc, fields, rec, ret, call>>

NextUnique ==
    \/ LoopTest
    \/ RunProcessCycle
    \/ Decide
    \/ Sleep
    \/ WriteTable

(***************************************************************************)
(* Specifications.                                                         *)
(***************************************************************************)
Init == InitWith(SessionDocs, "start")
Next == NextSession
Spec == Init /\ [][Next]_vars

InitCalls == InitWith(SessionDocs, "idle")
SpecCalls == InitCalls /\ [][NextCalls]_vars

InitDetect == InitWith(ImageDocs, "idle")
SpecDetect == InitDetect /\ [][NextDetect]_vars

InitOptions == InitWith(OptionDocs, "idle")
SpecOptions == InitOptions /\ [][NextOptions]_vars

InitBatch ==
    /\ SessionOff
    /\ cyc = NoCyc
    /\ io = NoIo
    /\ drv \in {[NoDrv EXCEPT !.kind = k, !.dpc = "glob", !.files = fs] :
                  k \in BatchKinds, fs \in SeqUpTo(BatchDocs, MaxBatch)}
SpecBatch == InitBatch /\ [][NextBatch]_vars

InitCycle ==
    /\ SessionOff
    /\ drv = NoDrv
    /\ io = NoIo
    /\ cyc \in {[NoCyc EXCEPT !.cpc = "test", !.duration = d, !.interval = iv] :
                  d \in Durations, iv \in Intervals}
SpecCycle == InitCycle /\ [][NextCycle]_vars

\* main of pdfextract4.0.py starts like main of pdf_form_extractor3.0.py.
SpecUnique == InitCycle /\ [][NextUnique]_vars

\* Every statement of main that can run does run: cycles and sleeps complete.
SpecCycleFair == SpecCycle /\ WF_vars(NextCycle)

InitOutput ==
    /\ SessionOff
    /\ drv = NoDrv
    /\ cyc = NoCyc
    /\ io \in {[NoIo EXCEPT !.stage = "ready", !.recs = <<r>>] : r \in PrintedRecs}
SpecOutput == InitOutput /\ [][NextOutput]_vars

InitBlocks ==
    /\ SessionOff
    /\ drv = NoDrv
    /\ cyc = NoCyc
    /\ io \in {[NoIo EXCEPT !.stage = "blocks", !.recs = bs] :
                 bs \in SeqUpTo(Blocks, MaxBlocks)}
SpecBlocks == InitBlocks /\ [][NextBlocks]_vars

(***************************************************************************)
(* Properties.                                                             *)
(***************************************************************************)
Entries(d) == 1..Len(d.fields)

\* Entry i is a field dictionary, and no earlier entry fails to resolve or
\* carries the same name, in a document whose /Root and /Fields are stored
\* directly: the entry the lookup by name hands back.
LookupReaches(d, i) ==
    /\ d.root = "direct" /\ d.acro # "absent" /\ d.fk = "direct"
    /\ i \in Entries(d)
    /\ d.fields[i].kind = "dict" /\ d.fields[i].T # NoKey
    /\ \A j \in 1..(i - 1) :
         d.fields[j].kind = "dict" /\ d.fields[j].T # d.fields[i].T

\* The normal appearance stream of the field lists an Image XObject.
HasImageXObject(ap) ==
    /\ ap.st # "absent" /\ ap.n = "stream"
    /\ \E i \in 1..Len(ap.ents) : ap.ents[i] = "Image"

IsDetectCall == call.fn = "detect_image_in_button"

\* C1: detect_image_in_button returns False for a name that no field carries
\* or that only fields of a type other than /Btn carry, whatever icon entry
\* or appearance stream those fields have.
C1_TypeGate ==
    (IsDetectCall /\ \A i \in Entries(doc) :
        (doc.fields[i].kind = "dict" /\ doc.fields[i].T = call.name)
            => doc.fields[i].FT # "/Btn")
    => (call.st = "ret" /\ call.b = FALSE)

\* A field that is not a button, with an icon entry and an Image XObject, was
\* looked up and the call returned False.
C1_Witness ==
    /\ IsDetectCall /\ call.b = FALSE
    /\ \E i \in Entries(doc) :
         /\ LookupReaches(doc, i) /\ doc.fields[i].T = call.name
         /\ doc.fields[i].FT = "/Tx" /\ doc.fields[i].MK = "I"
         /\ HasImageXObject(doc.fields[i].AP)

\* C2: for a /Btn field with a non-null /I in its /MK, stored directly or
\* behind a reference, detect_image_in_button returns True (stated for the
\* fields the lookup reaches).
C2_IconImpliesTrue ==
    IsDetectCall =>
        \A i \in Entries(doc) :
            (/\ LookupReaches(doc, i) /\ doc.fields[i].T = call.name
             /\ doc.fields[i].FT = "/Btn" /\ doc.fields[i].MK \in {"I", "refI"})
            => call.b = TRUE

\* C3: for a /Btn field without icon entry, detect_image_in_button returns
\* True exactly when the /XObject resources of its normal appearance stream
\* hold an Image, whatever the encoding of the stream (stated for the fields
\* the lookup reaches whose /MK, /AP and /Resources are stored directly).
C3_ScanIff ==
    IsDetectCall =>
        \A i \in Entries(doc) :
            (/\ LookupReaches(doc, i) /\ doc.fields[i].T = call.name
             /\ doc.fields[i].FT = "/Btn" /\ doc.fields[i].MK \in {"absent", "noI"}
             /\ doc.fields[i].AP.st # "indirect"
             /\ doc.fields[i].AP.res # "indirect"
             /\ doc.names # "indirect")
            => call.b = HasImageXObject(doc.fields[i].AP)

\* C4: the record process_pdf returns has flag "Y" exactly when its boolean
\* is true, and "N" otherwise.
C4_FlagMatchesBool ==
    ret = "record" =>
        /\ rec.image_present_flag \in {"Y", "N"}
        /\ (rec.image_present_flag = "Y") = rec.image_present_bool

C4_Witness ==
    ret = "record" /\ rec.image_present_bool /\ rec.image_present_flag = "Y"

\* C5: get_value raises nothing; it returns "" when the index is None (the
\* read fails), when the name is not indexed or when the field has no /V,
\* and str() of the stored value otherwise.
C5_GetValue ==
    call.fn = "get_value" =>
        LET idx == get_fields_dict(doc) IN
        /\ call.st = "ret"
        /\ call.s = IF idx.st = "none" THEN ""
                    ELSE IF call.name \notin DOMAIN idx.map THEN ""
                    ELSE IF idx.map[call.name].V = NoKey THEN ""
                    ELSE Str(idx.map[call.name].V)

\* get_value was called on the index None and returned "".
C5_Witness ==
    /\ call.fn = "get_value" /\ get_fields_dict(doc).st = "none"
    /\ call.st = "ret" /\ call.s = ""

\* C6: for a field with /Opt, get_choice_options returns the export string of
\* every stored entry, in the stored order, a pair behind a reference
\* included (stated for the fields the lookup reaches, /Opt stored directly).
C6_OptionsInOrder ==
    call.fn = "get_choice_options" =>
        \A i \in Entries(doc) :
            (/\ LookupReaches(doc, i) /\ doc.fields[i].T = call.name
             /\ doc.fields[i].Opt.st = "direct")
            => call.opts = [k \in 1..Len(doc.fields[i].Opt.items) |->
                               doc.fields[i].Opt.items[k].e]

\* C7: on a document without /AcroForm whose get_fields call completes,
\* get_fields_dict returns an empty mapping and the three readers return "",
\* the empty list and False without raising.
C7_NoFormEmptyIndex ==
    (doc.exists /\ doc.root # "absent" /\ doc.acro = "absent" /\ doc.gf = "ok")
    => /\ call.st = "ret"
       /\ call.fn = "get_fields_dict" =>
            (call.idx.st = "map" /\ DOMAIN call.idx.map = {})
       /\ call.fn = "get_value" => call.s = ""
       /\ call.fn = "get_choice_options" => call.opts = <<>>
       /\ IsDetectCall => call.b = FALSE

\* C8: detect_image_in_button raises nothing, and returns False whenever a
\* step of its body raises.
C8_DetectNeverRaises ==
    IsDetectCall =>
        /\ call.st = "ret"
        /\ detect_body(doc, call.name).st = "raise" => call.b = FALSE

\* The icon check raised on a /Btn field the lookup reached (its /MK is a
\* reference) and the call returned False.
C8_Witness ==
    /\ IsDetectCall /\ call.st = "ret" /\ call.b = FALSE
    /\ \E i \in Entries(doc) :
         /\ LookupReaches(doc, i) /\ doc.fields[i].T = call.name
         /\ doc.fields[i].FT = "/Btn" /\ doc.fields[i].MK = "refI"

\* C9: for a document that opens and has a catalog (here stored directly),
\* process_pdf ends with a record, never with None.
C9_SessionNeverAborts ==
    (pc = "done" /\ doc.exists /\ doc.root = "direct" /\ doc.gf = "ok")
    => ret = "record"

\* The document without its entries that do not resolve or carry no name.
WellFormedEntry(f) == f.kind = "dict" /\ f.T # NoKey
Cleaned(d) == [d EXCEPT !.fields = SelectSeq(d.fields, WellFormedEntry)]

\* C10: what is read for a name is what would be read with the unresolvable
\* and nameless entries of /Fields left out (documents with /Root and
\* /Fields stored directly).
C10_MalformedEntryIsolated ==
    (doc.root = "direct" /\ doc.fk = "direct")
    => /\ call.fn = "get_choice_options"
            => call.opts = get_choice_options(Cleaned(doc), call.name).val
       /\ IsDetectCall
            => call.b = detect_image_in_button(Cleaned(doc), call.name).val
       /\ call.fn = "get_value"
            => call.s = get_value(get_fields_dict(Cleaned(doc)), call.name).val

\* C13: the embedded-files inspection never changes the result: the call
\* returns, for every field name, what it returns on the document with any
\* other /Names entry (absent, without or with /EmbeddedFiles, a reference).
C13_NamesIrrelevant ==
    IsDetectCall =>
        \A n \in NamesKinds :
            call.b = detect_image_in_button([doc EXCEPT !.names = n], call.name).val

\* The call fell through to the embedded-files inspection on a document
\* that has embedded files, and returned False.
C13_Witness ==
    /\ IsDetectCall /\ call.b = FALSE /\ doc.names = "directEF"
    /\ \E i \in Entries(doc) :
         /\ LookupReaches(doc, i) /\ doc.fields[i].T = call.name
         /\ doc.fields[i].FT = "/Btn" /\ doc.fields[i].MK = "absent"
         /\ doc.fields[i].AP.st = "absent"

\* The XObject loop of the field runs: decoded normal appearance stream with
\* /Resources holding an /XObject dictionary, no icon entry.
ScanRuns(f) ==
    /\ f.FT = "/Btn" /\ f.MK \in {"absent", "noI"}
    /\ f.AP.st = "direct" /\ f.AP.n = "stream" /\ f.AP.enc = "decoded"
    /\ f.AP.res = "direct" /\ f.AP.xo # "absent"

\* C18: when the XObject loop runs and some entry is an Image, the call
\* returns True, whatever entries fail to resolve before or after it.
C18_ScanSkipsFailures ==
    IsDetectCall =>
        \A i \in Entries(doc) :
            (/\ LookupReaches(doc, i) /\ doc.fields[i].T = call.name
             /\ ScanRuns(doc.fields[i])
             /\ \E k \in 1..Len(doc.fields[i].AP.ents) :
                    doc.fields[i].AP.ents[k] = "Image")
            => call.b = TRUE

\* An entry that does not resolve came before the Image, and the call
\* returned True.
C18_Witness ==
    /\ IsDetectCall /\ call.b = TRUE
    /\ \E i \in Entries(doc) :
         /\ LookupReaches(doc, i) /\ doc.fields[i].T = call.name
         /\ ScanRuns(doc.fields[i])
         /\ doc.fields[i].AP.ents = <<"Dangling", "Image">>

LastNamed(d, i, name) ==
    /\ i \in Entries(d) /\ d.fields[i].kind = "dict" /\ d.fields[i].T = name
    /\ \A j \in (i + 1)..Len(d.fields) :
         ~(d.fields[j].kind = "dict" /\ d.fields[j].T = name)

\* The document with entry i as its only field.
OnlyEntry(d, i) == [d EXCEPT !.fields = <<d.fields[i]>>]

\* C15: with several entries of one name, every read for that name
\* (get_value, get_choice_options, detect_image_in_button) reports the last
\* entry: it returns what it returns on the document holding that entry
\* alone (documents whose get_fields call completes, /Root and /Fields
\* stored directly, every entry a named field dictionary).
C15_LastNameWins ==
    (/\ doc.root = "direct" /\ doc.fk = "direct" /\ doc.gf = "ok"
     /\ \A j \in Entries(doc) : WellFormedEntry(doc.fields[j]))
    => \A i \in Entries(doc) :
         LastNamed(doc, i, call.name) =>
            /\ call.fn = "get_value"
                 => call.s = get_value(get_fields_dict(OnlyEntry(doc, i)),
                                       call.name).val
            /\ call.fn = "get_choice_options"
                 => call.opts = get_choice_options(OnlyEntry(doc, i), call.name).val
            /\ IsDetectCall
                 => call.b = detect_image_in_button(OnlyEntry(doc, i), call.name).val

NoComma(opts) == \A k \in 1..Len(opts) : ~Contains(opts[k], {","})

\* C12: an option list whose entries hold no comma comes back from
\* re-splitting its serialization on ",": the cell of pdfextract2.0.py, and
\* the printed text as parse_batch_output normalizes it (the empty list
\* included; records whose Doc Num is one line).
C12_OptionsRoundTrip ==
    LET opts == io.recs[1].county_options IN
    (io.stage \in {"joined", "parsed"} /\ NoComma(opts)
        /\ ~Contains(io.recs[1].doc_num, {"\n"}))
    => /\ io.stage = "joined" => split(io.cell, ",") = opts
       /\ io.stage = "parsed" =>
            /\ Len(io.parsed) >= 1
            /\ "county_options" \in DOMAIN io.parsed[1]
            /\ split(io.parsed[1]["county_options"], ",") = opts

FlagIsY(r) ==
    "image_present_flag" \in DOMAIN r /\ r["image_present_flag"] = <<"Y">>

BoolIsTrue(r) ==
    "image_present_bool" \in DOMAIN r /\ r["image_present_bool"] = TRUE

\* C14: every record parse_batch_output builds from the printed output has
\* the flag "Y" exactly when its boolean is True, whatever text the values
\* and options of the document hold.
C14_ParsedFlagMatchesBool ==
    io.stage = "parsed" =>
        \A k \in 1..Len(io.parsed) : FlagIsY(io.parsed[k]) = BoolIsTrue(io.parsed[k])

BatchOver == drv.dpc \in {"done", "returned", "exited"}

\* The files of the batch for which process_pdf returns a record.
Yielding(files) == {k \in 1..Len(files) : process_pdf_returns(files[k]) = "record"}

\* C11: in every batch driver, when the run is over, the records collected
\* are those of the documents that yield one: a document that cannot be
\* opened or read contributes none and takes no other document's record
\* away, wherever it stands in the batch.
C11_FailureIsolated ==
    BatchOver =>
        /\ {drv.results[k].path : k \in 1..Len(drv.results)} = Yielding(drv.files)
        /\ Len(drv.results) = Cardinality(Yielding(drv.files))

\* process_pdf is between load_reader and its return.
InSession == pc \in {"fields", "values", "options", "image", "emit"}

RECURSIVE SumOf(_, _)
SumOf(counts, field) ==
    IF counts = <<>> THEN 0 ELSE Head(counts)[field] + SumOf(Tail(counts), field)

\* C17: the counts of a batch are the number of files enumerated and the
\* number of them process_pdf returned a record for, succeeded never above
\* attempted; after every cycle the running totals of the recurring driver
\* are the sums of the counts of the cycles, total_success never above
\* total_processed.
C17_CountsConsistent ==
    /\ cyc.cycle_count > 0 /\ cyc.cpc # "cycle"
        => /\ cyc.pdf_count = Len(cyc.files)
           /\ cyc.success_count = Cardinality(Yielding(cyc.files))
           /\ cyc.success_count <= cyc.pdf_count
    /\ cyc.total_processed = SumOf(cyc.counts, "pdf_count")
    /\ cyc.total_success = SumOf(cyc.counts, "success_count")
    /\ cyc.total_success <= cyc.total_processed

\* Two cycles ran, some document failed and some gave a record.
C17_Witness ==
    /\ cyc.cycle_count = 2 /\ cyc.cpc = "decide"
    /\ cyc.total_success > 0 /\ cyc.total_success < cyc.total_processed

\* C20: a cycle starts only while the time elapsed since the start is
\* strictly below the duration, whatever the duration, the interval and
\* the time the cycles take.
C20_CycleStartsInTime ==
    cyc.cpc = "cycle" => cyc.now - cyc.start_time < cyc.duration

\* A second cycle starts, after time has passed.
C20_Witness ==
    /\ cyc.cpc = "cycle" /\ cyc.cycle_count = 2
    /\ cyc.now - cyc.start_time > 0

\* C21: the driver sleeps only if another cycle runs after the sleep: the
\* loop test that follows a sleep starts a cycle, it never leaves the loop.
C21_SleepOnlyBeforeCycle ==
    [][(cyc.cpc = "test" /\ cyc.cycle_count > 0) => cyc'.cpc = "cycle"]_vars

CyclesTakeTime ==
    cyc.cpc = "decide" => cyc.now - cyc.start_time >= cyc.cycle_count

ExpectedRecord(b) ==
    LET ls == ResultLines(b.r)
        keys == {key_map[ls[j].label] : j \in 1..b.upto}
    IN [k \in {"filename"} \cup keys |->
          IF k = "filename" THEN b.r.filename
          ELSE LET j == CHOOSE x \in 1..b.upto : key_map[ls[x].label] = k
               IN ParsedValue(k, strip(ls[j].value))]

\* C23: for console output made of N blocks, each opened by a header line
\* and closed by a dashed line, by the next header or by the end of the
\* output, parse_batch_output returns N records in block order, each with
\* the filename of its header and the keyed values of its own block only.
C23_OneRecordPerBlock ==
    io.stage = "parsed" =>
        /\ Len(io.parsed) = Len(io.recs)
        /\ \A k \in 1..Len(io.recs) : io.parsed[k] = ExpectedRecord(io.recs[k])

\* Two blocks were parsed: the first cut short and closed by the second's
\* header, the second closed by its dashed line.
C23_Witness ==
    /\ io.stage = "parsed" /\ Len(io.recs) = 2 /\ Len(io.parsed) = 2
    /\ ~io.recs[1].dash /\ io.recs[1].upto = 2
    /\ io.recs[2].dash /\ io.recs[2].upto > 2
    /\ io.recs[1].r.doc_num # io.recs[2].r.doc_num

Identifiers(rs) == {identifier(rs[k]) : k \in 1..Len(rs)}

IsPrefix(s, t) == Len(s) <= Len(t) /\ SubSeq(t, 1, Len(s)) = s

\* C22: in pdfextract4.0, after any number of cycles no two records of
\* all_results have the same identifier, the identifiers kept are the ones
\* seen and the record kept for each is the first one parsed with it;
\* seen_identifiers only grows, all_results is only extended, and a cycle
\* whose subprocess fails or yields no parsed record adds nothing.
C22_UniqueAcrossCycles ==
    /\ [](LET rs == cyc.all_results IN
            /\ \A j, k \in 1..Len(rs) :
                  identifier(rs[j]) = identifier(rs[k]) => j = k
            /\ Identifiers(rs) = cyc.seen_identifiers
            /\ Identifiers(rs) = DOMAIN cyc.first_of
            /\ \A k \in 1..Len(rs) : rs[k] = cyc.first_of[identifier(rs[k])])
    /\ [][/\ cyc.seen_identifiers \subseteq cyc'.seen_identifiers
          /\ IsPrefix(cyc.all_results, cyc'.all_results)
          /\ (cyc.cpc = "cycle" /\ cyc'.outcome \in {"failed", "empty"})
                => /\ cyc'.all_results = cyc.all_results
                   /\ cyc'.seen_identifiers = cyc.seen_identifiers]_vars

\* The run ended after two cycles that parsed three files; the last cycle
\* parsed records and two records were kept.
C22_Witness ==
    /\ cyc.cpc = "done" /\ cyc.cycle_count = 2 /\ cyc.outcome = "parsed"
    /\ Cardinality(cyc.parsed_files) = 3 /\ Len(cyc.all_results) = 2

\* C24: at the end of a run of pdfextract4.0 every filename for which some
\* cycle's parsed output held a record has a record in all_results.
C24_NoFileLost ==
    cyc.cpc = "done" =>
        \A f \in cyc.parsed_files :
            \E k \in 1..Len(cyc.all_results) : cyc.all_results[k]["filename"] = f

=============================================================================
